---- MODULE Spec2Model ----
\* The client of src/frontend/src/App.js as a state machine: the React state of
\* the App component, the 'token' entry of local storage, and the asynchronous
\* handler calls that are suspended at an await.  The file holds two variants
\* of the component (themed: lines 24-837, generic: lines 855-1522); the
\* variable `variant` says which one runs.
\*
\* A handler is a closure of the render that created it: after an await it
\* still reads the token, the currentQuestion and the input values of that
\* render, while every set...() call acts on the live state.  Each suspended
\* call therefore carries the values it captured.
EXTENDS Integers, Sequences, FiniteSets, Bags, TLC

\* ------------------------------------------------------------------ bounds
\* UI events (clicks, submits, input changes) in one behaviour of Spec, which
\* has every action ...
MaxEvents == 3
\* ... and of the specifications that have the actions of one part of the UI.
MaxSessionEvents == 3
MaxBrowseEvents == 3
MaxSearchEvents == 4
MaxFormEvents == 3
MaxTagEvents == 1
MaxChatEvents == 6
MaxReloginEvents == 5
\* The user acts only while fewer than this many calls are suspended.
MaxPending == 2
\* Length of the tags input explored by SpecTags.
MaxLen == 4

\* ------------------------------------------------------------------ values
Null == "null"
Tokens == {"tA", "tB"}
Variants == {"themed", "generic"}

NullUser == [id |-> 0]
Users == {[id |-> 1]}

NullQuestion == [id |-> 0, votes |-> 0, views |-> 0, answer_count |-> 0]
\* Two snapshots the server may return for a question id.
QuestionVals(q) ==
    { [id |-> q, votes |-> 0, views |-> 1, answer_count |-> 0],
      [id |-> q, votes |-> 1, views |-> 2, answer_count |-> 1] }
Q1a == [id |-> 1, votes |-> 0, views |-> 1, answer_count |-> 0]
Q1b == [id |-> 1, votes |-> 1, views |-> 2, answer_count |-> 1]
Q2a == [id |-> 2, votes |-> 0, views |-> 1, answer_count |-> 0]
\* Bodies the server may return for GET /api/questions and GET /api/search.
ListVals == { <<Q1a>>, <<Q1b, Q2a>> }
\* Bodies the server may return for GET /api/questions/{id}/answers.
AnswerVals == { <<>>, <<[id |-> 1, votes |-> 0]>> }

\* Text is a sequence of one-character strings.
Chars == {"a", "b", ",", " "}
Queries == { <<>>, <<" ">>, <<"a">> }
AnswerInputs == { <<>>, <<"a">> }
TagInputs == { <<>>, <<"a", ",", " ", "b">> }
\* IMMIGRATION_CATEGORIES, two of the fourteen.
IMMIGRATION_CATEGORIES == {"employment", "housing"}
\* What is typed into the chat input, and what the assistant replies.
ChatInputs == { <<>>, <<" ">>, <<"a">> }
ChatReplies == {"r"}

RECURSIVE TextsUpTo(_)
TextsUpTo(n) ==
    IF n = 0 THEN { <<>> }
    ELSE LET shorter == TextsUpTo(n - 1)
         IN  shorter \cup { Append(s, c) : s \in shorter, c \in Chars }

\* ---------------------------------------------------------- pure functions
\* String.prototype.trim over the model's alphabet.
RECURSIVE TrimStart(_)
TrimStart(s) ==
    IF s # <<>> /\ Head(s) = " " THEN TrimStart(Tail(s)) ELSE s

RECURSIVE TrimEnd(_)
TrimEnd(s) ==
    IF s # <<>> /\ s[Len(s)] = " " THEN TrimEnd(SubSeq(s, 1, Len(s) - 1)) ELSE s

Trim(s) == TrimEnd(TrimStart(s))

\* String.prototype.split(','): the pieces between commas, empty ones kept.
RECURSIVE SplitFrom(_, _)
SplitFrom(s, piece) ==
    IF s = <<>> THEN << piece >>
    ELSE IF Head(s) = "," THEN << piece >> \o SplitFrom(Tail(s), <<>>)
    ELSE SplitFrom(Tail(s), Append(piece, Head(s)))

Split(s) == SplitFrom(s, <<>>)

\* The JavaScript string a text stands for.
RECURSIVE Str(_)
Str(s) == IF s = <<>> THEN "" ELSE Head(s) \o Str(Tail(s))

\* A slip: the pieces are not trimmed before the empty ones are dropped.
ParseTagsUntrimmed(tags) ==
    LET pieces == Split(tags)
        kept   == SelectSeq(pieces, LAMBDA t : t # <<>>)
    IN  [i \in 1..Len(kept) |-> Str(kept[i])]

\* questionData.tags.split(',').map(tag => tag.trim()).filter(tag => tag)
ParseTags(tags) ==
    LET pieces  == Split(tags)
        trimmed == [i \in 1..Len(pieces) |-> Trim(pieces[i])]
        kept    == SelectSeq(trimmed, LAMBDA t : t # <<>>)
    IN  [i \in 1..Len(kept) |-> Str(kept[i])]

\* The tags field of the create-question body: [...tags, questionData.category]
\* in the themed variant, tags in the generic one.
QuestionTags(v, tags, category) ==
    IF v = "themed" THEN Append(ParseTags(tags), category) ELSE ParseTags(tags)

\* encodeURIComponent over the model's alphabet.
EncodeChar(c) == IF c = " " THEN "%20" ELSE IF c = "," THEN "%2C" ELSE c
RECURSIVE EncodeURIComponent(_)
EncodeURIComponent(s) ==
    IF s = <<>> THEN "" ELSE EncodeChar(Head(s)) \o EncodeURIComponent(Tail(s))

\* JavaScript truthiness of the token: null and '' are falsy.
Truthy(t) == t # Null /\ t # ""

\* ------------------------------------------------------------------- state
VARIABLES
    variant,          \* which of the two components runs
    token,            \* useState(localStorage.getItem('token'))
    stored,           \* local storage entry 'token' (Null: no entry)
    user,
    questions,
    currentQuestion,
    answers,
    authMode,
    loading,
    loginData,
    registerData,
    questionData,
    answerContent,
    searchQuery,
    isChatOpen,
    chatMessages,     \* the transcript: records [text, sender]
    chatInput,
    tasks,            \* handler calls suspended at an await
    nid,              \* next id of a suspended call
    nevents,          \* UI events so far
    budget,           \* UI events the behaviour may hold
    marks,            \* what has happened so far, as far as the properties ask
    listed,           \* id of the call whose response questions holds (0: none)
    last,             \* the step just taken
    sent,             \* the requests apiRequest issued in that step
    alerted           \* the messages alert() showed in that step

vars == << variant, token, stored, user, questions, currentQuestion, answers,
           authMode, loading, loginData, registerData, questionData,
           answerContent, searchQuery, isChatOpen, chatMessages, chatInput,
           tasks, nid, nevents, budget, marks, listed, last, sent, alerted >>

\* ------------------------------------------------------------ initial forms
InitLoginData == [username |-> "", password |-> ""]
FilledLoginData == [username |-> "u", password |-> "p"]
InitRegisterData == [username |-> "", email |-> "", password |-> ""]
FilledRegisterData == [username |-> "u", email |-> "e", password |-> "p"]
InitQuestionData ==
    [title |-> "", content |-> "", tags |-> <<>>, category |-> "", urgency |-> "normal"]

\* The rendered screen: `if (!token) return <auth screen>`.
View == IF Truthy(token) THEN "main" ELSE "auth"
DetailOpen == View = "main" /\ currentQuestion # NullQuestion

\* ---------------------------------------------------------------- requests
\* apiRequest(url, options) of a render whose token is tok: the request that
\* fetch() sends.  headers holds Authorization only when tok is truthy; no
\* caller passes options.headers.  `now` is the live token when it is sent.
ApiRequest(tok, kind, q, val, body, cause, now) ==
    [ kind   |-> kind,
      q      |-> q,
      val    |-> val,
      body   |-> body,
      auth   |-> IF Truthy(tok) THEN "Bearer " \o tok ELSE Null,
      tokNow |-> now,
      cause  |-> cause ]

\* The body of a non-OK response: text that is not JSON, or JSON that is an
\* object (with a detail that is a string or a list of objects, or without
\* one) or null.
NoDetail == [type |-> "absent", str |-> ""]
StringDetail(str) == [type |-> "string", str |-> str]
ListDetail == [type |-> "list", str |-> ""]
FailShapes ==
    { [parses |-> TRUE, json |-> "object", detail |-> StringDetail("Bad credentials")],
      [parses |-> TRUE, json |-> "object", detail |-> StringDetail("")],
      [parses |-> TRUE, json |-> "object", detail |-> NoDetail],
      [parses |-> TRUE, json |-> "object", detail |-> ListDetail],
      [parses |-> TRUE, json |-> "null", detail |-> NoDetail],
      [parses |-> FALSE, json |-> "", detail |-> NoDetail] }

\* String(detail), which new Error(detail) applies to its argument: a list of
\* objects becomes "[object Object]".
StringOf(detail) ==
    IF detail.type = "string" THEN detail.str ELSE "[object Object]"

\* The message of the error apiRequest throws for a non-OK response:
\*   const error = await response.json().catch(() => ({ detail: 'Network error' }));
\*   throw new Error(error.detail || 'Request failed');
\* With a body of null, error.detail throws a TypeError instead (the message
\* is the one of V8).
ErrorMessage(shape) ==
    LET error == IF shape.parses THEN shape
                 ELSE [parses |-> FALSE, json |-> "object",
                       detail |-> StringDetail("Network error")]
    IN  IF error.json = "null"
        THEN "Cannot read properties of null (reading 'detail')"
        ELSE IF error.detail # NoDetail /\ error.detail # StringDetail("")
        THEN StringOf(error.detail)
        ELSE "Request failed"

\* A suspended call: the function, where it waits, the UI event (or 0: mount)
\* it descends from, and what its closure captured.
Task(id, op, pc, cause, tok, cq, q, val, text) ==
    [ id |-> id, op |-> op, pc |-> pc, cause |-> cause,
      tok |-> tok, cq |-> cq, q |-> q, val |-> val, text |-> text ]

NoTask == Task(0, "", "", 0, Null, NullQuestion, 0, 0, <<>>)

\* The calls below return [task, reqs]: the suspended call and the requests it
\* sends before its first await.
FetchUserCall(id, tok, cause, now) ==
    [ task |-> Task(id, "fetchUser", "await", cause, tok, NullQuestion, 0, 0, <<>>),
      reqs |-> << ApiRequest(tok, "me", 0, 0, <<>>, cause, now) >> ]

FetchQuestionsCall(id, tok, cause, now) ==
    [ task |-> Task(id, "fetchQuestions", "await", cause, tok, NullQuestion, 0, 0, <<>>),
      reqs |-> << ApiRequest(tok, "list", 0, 0, <<>>, cause, now) >> ]

\* Promise.all of the detail and the answers request.
FetchQuestionCall(id, tok, q, cause, now) ==
    [ task |-> Task(id, "fetchQuestion", "await", cause, tok, NullQuestion, q, 0, <<>>),
      reqs |-> << ApiRequest(tok, "question", q, 0, <<>>, cause, now),
                  ApiRequest(tok, "answers", q, 0, <<>>, cause, now) >> ]

\* A slip: the effect fetches the list only.
TokenEffectWithoutProfile(id, tok, cause) ==
    << FetchQuestionsCall(id, tok, cause, tok) >>

\* useEffect(..., [token]) of the render in which the token is tok.
TokenEffect(id, tok, cause) ==
    IF Truthy(tok)
    THEN << FetchUserCall(id, tok, cause, tok), FetchQuestionsCall(id + 1, tok, cause, tok) >>
    ELSE << FetchQuestionsCall(id, tok, cause, tok) >>

\* The effect runs only when the token of the new render differs.
EffectIfChanged(id, old, new, cause) ==
    IF old # new THEN TokenEffect(id, new, cause) ELSE << >>

RECURSIVE AllReqs(_)
AllReqs(cs) ==
    IF cs = <<>> THEN <<>> ELSE Head(cs).reqs \o AllReqs(Tail(cs))

\* Start the calls cs: suspend them and send their requests; `done` are the
\* suspended calls that end in this step.
Start(cs, done) ==
    /\ tasks' = (tasks \ done) \cup { cs[i].task : i \in 1..Len(cs) }
    /\ sent' = AllReqs(cs)
    /\ nid' = nid + Len(cs)

\* A UI event: bounded, and numbered so that requests can name their cause.
Event ==
    /\ nevents < budget
    /\ Cardinality(tasks) < MaxPending
    /\ nevents' = nevents + 1
    /\ UNCHANGED budget

\* marks: "loggedOut" from a logout to the next successful login; "relogged"
\* once a successful login has followed a logout; "searched" once a search
\* with a non-blank query has completed; "returned" from leaving a question's
\* page for the list to the next opening of a question.
Mark(m) == marks' = marks \cup {m}
\* listed: the id of the call whose response setQuestions stored last.
ListProducing == { "fetchQuestions", "handleSearch" }
Listed(t) == listed' = t.id
Unmark(m) == marks' = marks \ {m}
MarkLogin ==
    marks' = (marks \ {"loggedOut"})
                \cup (IF "loggedOut" \in marks THEN {"relogged"} ELSE {})
ThisEvent == nevents + 1

\* The step taken: a UI event and its arguments ...
Did(op, type, q, val) ==
    last' = [ op |-> op, cause |-> ThisEvent, ok |-> TRUE, task |-> NoTask,
              type |-> type, q |-> q, val |-> val, body |-> <<>> ]
\* ... or the suspended call t resumed by a response: ok with its body, or not.
Resumed(op, t, ok, body) ==
    last' = [ op |-> op, cause |-> t.cause, ok |-> ok, task |-> t,
              type |-> "", q |-> t.q, val |-> t.val, body |-> body ]

\* The requests of kind `kind` among those just sent.
Sent(kind) == SelectSeq(sent, LAMBDA r : r.kind = kind)

\* -------------------------------------------------------------------- Init
\* The page loads: local storage holds a token of an earlier visit or none,
\* the state is what useState sets, and the token effect has run once.
\* SpecTags starts with the Ask Question dialog filled in (typed), the other
\* specifications with the empty form.
Mounted(storedTokens, events, typed) ==
    /\ variant \in Variants
    /\ budget = events
    /\ stored \in storedTokens
    /\ token = stored
    /\ user = NullUser
    /\ questions = <<>>
    /\ currentQuestion = NullQuestion
    /\ answers = <<>>
    /\ authMode = "login"
    /\ loading = FALSE
    /\ loginData = InitLoginData
    /\ registerData = InitRegisterData
    /\ questionData \in typed
    /\ variant = "generic" => questionData.category = ""
    /\ answerContent = <<>>
    /\ searchQuery = <<>>
    /\ isChatOpen = FALSE
    /\ chatMessages = <<>>
    /\ chatInput = <<>>
    /\ LET cs == TokenEffect(1, token, 0)
       IN  /\ tasks = { cs[i].task : i \in 1..Len(cs) }
           /\ sent = AllReqs(cs)
           /\ nid = 1 + Len(cs)
    /\ nevents = 0
    /\ last = [ op |-> "mount", cause |-> 0, ok |-> TRUE, task |-> NoTask,
                type |-> "", q |-> 0, val |-> 0, body |-> <<>> ]
    /\ marks = {}
    /\ listed = 0
    /\ alerted = <<>>

\* What an action leaves alone, by group.
session == << token, stored, user >>
browse == << questions, currentQuestion, answers >>
authForms == << authMode, loginData, registerData >>
forms == << questionData, answerContent, searchQuery >>
chat == << isChatOpen, chatMessages, chatInput >>
callVars == << tasks, nid, marks >>
ghost == << nevents, budget, marks >>
Quiet == sent' = <<>> /\ alerted' = <<>>

\* ---------------------------------------------------------------- UI events
\* <Tabs value={authMode} onValueChange={setAuthMode}> on the auth screen.
SetAuthMode(m) ==
    /\ Event
    /\ View = "auth"
    /\ authMode' = m
    /\ Did("setAuthMode", m, 0, 0)
    /\ Quiet
    /\ UNCHANGED << variant, listed, chat, session, browse, loading, loginData, registerData,
                    forms, callVars >>

SetLoginData(d) ==
    /\ Event
    /\ View = "auth"
    /\ loginData' = d
    /\ Did("setLoginData", "", 0, 0)
    /\ Quiet
    /\ UNCHANGED << variant, listed, chat, session, browse, loading, authMode, registerData,
                    forms, callVars >>

SetRegisterData(d) ==
    /\ Event
    /\ View = "auth"
    /\ registerData' = d
    /\ Did("setRegisterData", "", 0, 0)
    /\ Quiet
    /\ UNCHANGED << variant, listed, chat, session, browse, loading, authMode, loginData,
                    forms, callVars >>

SetSearchQuery(q) ==
    /\ Event
    /\ View = "main"
    /\ searchQuery' = q
    /\ Did("setSearchQuery", "", 0, 0)
    /\ Quiet
    /\ UNCHANGED << variant, listed, chat, session, browse, loading, authForms, questionData,
                    answerContent, callVars >>

\* The tags input of the Ask Question dialog.
SetQuestionTags(s) ==
    /\ Event
    /\ View = "main"
    /\ questionData' = [questionData EXCEPT !.tags = s]
    /\ Did("setQuestionData", "tags", 0, 0)
    /\ Quiet
    /\ UNCHANGED << variant, listed, chat, session, browse, loading, authForms, answerContent,
                    searchQuery, callVars >>

\* The category select, which only the themed variant renders.
SetQuestionCategory(c) ==
    /\ Event
    /\ View = "main"
    /\ variant = "themed"
    /\ questionData' = [questionData EXCEPT !.category = c]
    /\ Did("setQuestionData", "category", 0, 0)
    /\ Quiet
    /\ UNCHANGED << variant, listed, chat, session, browse, loading, authForms, answerContent,
                    searchQuery, callVars >>

SetAnswerContent(s) ==
    /\ Event
    /\ DetailOpen
    /\ answerContent' = s
    /\ Did("setAnswerContent", "", 0, 0)
    /\ Quiet
    /\ UNCHANGED << variant, listed, chat, session, browse, loading, authForms, questionData,
                    searchQuery, callVars >>

\* handleAuth up to its await.  The submit button is disabled while loading.
HandleAuth ==
    /\ Event
    /\ View = "auth"
    /\ ~loading
    /\ loading' = TRUE
    /\ LET endpoint == IF authMode = "login" THEN "login" ELSE "register"
           data == IF authMode = "login"
                   THEN << loginData.username, loginData.password >>
                   ELSE << registerData.username, registerData.email, registerData.password >>
       IN  Start(<< [ task |-> Task(nid, "handleAuth", "await", ThisEvent, token,
                                    currentQuestion, 0, 0, <<>>),
                      reqs |-> << ApiRequest(token, endpoint, 0, 0, data, ThisEvent, token) >> ] >>,
                 {})
    /\ Did("handleAuth", authMode, 0, 0)
    /\ UNCHANGED marks
    /\ alerted' = <<>>
    /\ UNCHANGED << variant, listed, chat, session, browse, authForms, forms >>

\* A slip: logout without localStorage.removeItem('token').
LogoutKeepsStorage ==
    /\ token' = Null
    /\ user' = NullUser
    /\ UNCHANGED stored
    /\ currentQuestion' = NullQuestion
    /\ answers' = <<>>

\* A slip: logout without setAnswers([]).
LogoutKeepsAnswers ==
    /\ token' = Null
    /\ user' = NullUser
    /\ stored' = Null
    /\ currentQuestion' = NullQuestion
    /\ UNCHANGED answers

\* The assignments of logout.
LogoutState ==
    /\ token' = Null
    /\ user' = NullUser
    /\ stored' = Null
    /\ currentQuestion' = NullQuestion
    /\ answers' = <<>>

\* logout, and the token effect of the render that follows it.
Logout ==
    /\ Event
    /\ View = "main"
    /\ LogoutState
    /\ Start(EffectIfChanged(nid, token, token', ThisEvent), {})
    /\ Did("logout", "", currentQuestion.id, Len(answers))
    /\ Mark("loggedOut")
    /\ alerted' = <<>>
    /\ UNCHANGED << variant, listed, chat, questions, loading, authForms, forms >>

\* onClick={() => fetchQuestion(question.id)} on a row of the list.
OpenQuestion(q) ==
    /\ Event
    /\ View = "main"
    /\ currentQuestion = NullQuestion
    /\ \E i \in 1..Len(questions) : questions[i].id = q
    /\ Start(<< FetchQuestionCall(nid, token, q, ThisEvent, token) >>, {})
    /\ Did("fetchQuestion", "", q, 0)
    /\ Unmark("returned")
    /\ alerted' = <<>>
    /\ UNCHANGED << variant, listed, chat, session, browse, loading, authForms, forms >>

\* The header logo and the Back to Questions button:
\* setCurrentQuestion(null); fetchQuestions().
BackToQuestions ==
    /\ Event
    /\ View = "main"
    /\ currentQuestion' = NullQuestion
    /\ Start(<< FetchQuestionsCall(nid, token, ThisEvent, token) >>, {})
    /\ Did("back", "", 0, 0)
    /\ IF currentQuestion # NullQuestion THEN Mark("returned") ELSE UNCHANGED marks
    /\ alerted' = <<>>
    /\ UNCHANGED << variant, listed, chat, session, questions, answers, loading, authForms, forms >>

\* A slip: the list is fetched again at once, while the vote is in flight.
VoteCallsEagerRefetch(targetId, targetType, value) ==
    IF ~Truthy(token) \/ user = NullUser
    THEN << >>
    ELSE << [ task |-> Task(nid, "handleVote", "await", ThisEvent, token,
                            currentQuestion, targetId, value, << targetType >>),
              reqs |-> << ApiRequest(token, "vote", targetId, value,
                                     << targetType >>, ThisEvent, token) >> ],
            FetchQuestionsCall(nid + 1, token, ThisEvent, token) >>

\* A slip: the vote is sent whenever there is a token, the user id read
\* with optional chaining.
VoteCallsWithoutProfile(targetId, targetType, value) ==
    IF ~Truthy(token)
    THEN << >>
    ELSE << [ task |-> Task(nid, "handleVote", "await", ThisEvent, token,
                            currentQuestion, targetId, value, << targetType >>),
              reqs |-> << ApiRequest(token, "vote", targetId, value,
                                     << targetType >>, ThisEvent, token) >> ] >>

\* handleVote up to its await.  The vote buttons exist only in the detail
\* view.  `user.id` is read inside the try block: with user null it throws a
\* TypeError that the catch swallows, and nothing is sent.
VoteCalls(targetId, targetType, value) ==
    IF ~Truthy(token) \/ user = NullUser
    THEN << >>
    ELSE << [ task |-> Task(nid, "handleVote", "await", ThisEvent, token,
                            currentQuestion, targetId, value, << targetType >>),
              reqs |-> << ApiRequest(token, "vote", targetId, value,
                                     << targetType >>, ThisEvent, token) >> ] >>

HandleVote(targetId, targetType, value) ==
    /\ Event
    /\ DetailOpen
    /\ \/ targetType = "question" /\ targetId = currentQuestion.id
       \/ targetType = "answer" /\ \E i \in 1..Len(answers) : answers[i].id = targetId
    /\ Start(VoteCalls(targetId, targetType, value), {})
    /\ Did("handleVote", targetType, targetId, value)
    /\ UNCHANGED marks
    /\ alerted' = <<>>
    /\ UNCHANGED << variant, listed, chat, session, browse, loading, authForms, forms >>

\* handleCreateQuestion up to its await.  Post Question is disabled while
\* loading and, in the themed variant, while no category is selected.
HandleCreateQuestion ==
    /\ Event
    /\ View = "main"
    /\ ~loading
    /\ variant = "themed" => questionData.category # ""
    /\ IF ~Truthy(token)
       THEN /\ Start(<< >>, {})
            /\ UNCHANGED loading
       ELSE /\ loading' = TRUE
            /\ Start(<< [ task |-> Task(nid, "handleCreateQuestion", "await", ThisEvent,
                                        token, currentQuestion, 0, 0, questionData.tags),
                          reqs |-> << ApiRequest(token, "createQuestion", 0, 0,
                                          QuestionTags(variant, questionData.tags,
                                                       questionData.category),
                                          ThisEvent, token) >> ] >>,
                     {})
    /\ Did("handleCreateQuestion", "", 0, 0)
    /\ UNCHANGED marks
    /\ alerted' = <<>>
    /\ UNCHANGED << variant, listed, chat, session, browse, authForms, forms >>

\* handleCreateAnswer up to its first await.
HandleCreateAnswer ==
    /\ Event
    /\ DetailOpen
    /\ ~loading
    /\ IF ~Truthy(token) \/ currentQuestion = NullQuestion
       THEN /\ Start(<< >>, {})
            /\ UNCHANGED loading
       ELSE /\ loading' = TRUE
            /\ Start(<< [ task |-> Task(nid, "handleCreateAnswer", "create", ThisEvent,
                                        token, currentQuestion, 0, 0, answerContent),
                          reqs |-> << ApiRequest(token, "createAnswer", currentQuestion.id,
                                          0, << Str(answerContent) >>, ThisEvent, token) >> ] >>,
                     {})
    /\ Did("handleCreateAnswer", "", currentQuestion.id, 0)
    /\ UNCHANGED marks
    /\ alerted' = <<>>
    /\ UNCHANGED << variant, listed, chat, session, browse, authForms, forms >>

\* A slip: the query is tested without trim(), so that a query of spaces is
\* sent to the search endpoint.
SearchCallsUntrimmed ==
    IF searchQuery = <<>>
    THEN << FetchQuestionsCall(nid, token, ThisEvent, token) >>
    ELSE << [ task |-> Task(nid, "handleSearch", "await", ThisEvent, token,
                            currentQuestion, 0, 0, searchQuery),
              reqs |-> << ApiRequest(token, "search", 0, 0,
                                     << EncodeURIComponent(searchQuery) >>,
                                     ThisEvent, token) >> ] >>

\* handleSearch up to its await: a blank query calls fetchQuestions() instead
\* of the search endpoint.
SearchCalls ==
    IF Trim(searchQuery) = <<>>
    THEN << FetchQuestionsCall(nid, token, ThisEvent, token) >>
    ELSE << [ task |-> Task(nid, "handleSearch", "await", ThisEvent, token,
                            currentQuestion, 0, 0, searchQuery),
              reqs |-> << ApiRequest(token, "search", 0, 0,
                                     << EncodeURIComponent(searchQuery) >>,
                                     ThisEvent, token) >> ] >>

HandleSearch ==
    /\ Event
    /\ View = "main"
    /\ Start(SearchCalls, {})
    /\ Did("handleSearch", Str(searchQuery), 0, 0)
    /\ UNCHANGED marks
    /\ alerted' = <<>>
    /\ UNCHANGED << variant, listed, chat, session, browse, loading, authForms, forms >>

\* The assistant button and the X of the dialog.  The dialog is an overlay of
\* the main view; the controls under it stay reachable from the keyboard.
SetIsChatOpen(b) ==
    /\ Event
    /\ View = "main"
    /\ isChatOpen # b
    /\ isChatOpen' = b
    /\ Did("setIsChatOpen", "", 0, 0)
    /\ Quiet
    /\ UNCHANGED << variant, listed, session, browse, loading, authForms, forms,
                    chatMessages, chatInput, callVars >>

SetChatInput(s) ==
    /\ Event
    /\ View = "main"
    /\ isChatOpen
    /\ chatInput' = s
    /\ Did("setChatInput", "", 0, 0)
    /\ Quiet
    /\ UNCHANGED << variant, listed, session, browse, loading, authForms, forms,
                    isChatOpen, chatMessages, callVars >>

UserMessage(text) == [text |-> Str(text), sender |-> "user"]
AiMessage(response) == [text |-> response, sender |-> "ai"]
ErrorMessageOfChat ==
    [text |-> "Sorry, I encountered an error. Please try again.", sender |-> "ai"]

\* A slip: the input is cleared before the request body is built from it.
ChatRequestBodyAfterClear(text) == << "" >>

\* body: JSON.stringify({ message: chatInput })
ChatRequestBody(text) == << Str(text) >>

\* handleChatMessage up to its await (Enter in the input, or the send button).
HandleChatMessage ==
    /\ Event
    /\ View = "main"
    /\ isChatOpen
    /\ IF Trim(chatInput) = <<>> \/ ~Truthy(token)
       THEN /\ Start(<< >>, {})
            /\ UNCHANGED << chatMessages, chatInput >>
       ELSE /\ chatMessages' = Append(chatMessages, UserMessage(chatInput))
            /\ chatInput' = <<>>
            /\ Start(<< [ task |-> Task(nid, "handleChatMessage", "await", ThisEvent,
                                        token, currentQuestion, 0, 0, chatInput),
                          reqs |-> << ApiRequest(token, "chat", 0, 0,
                                          ChatRequestBody(chatInput), ThisEvent, token) >> ] >>,
                     {})
    /\ Did("handleChatMessage", Str(chatInput), 0, 0)
    /\ UNCHANGED marks
    /\ alerted' = <<>>
    /\ UNCHANGED << variant, listed, session, browse, loading, authForms, forms, isChatOpen >>

\* ------------------------------------------------------------ continuations
\* Each action below is a suspended call resumed by the settling of the
\* request(s) it awaits, run to its next await or to its end.

\* fetchUser after its await: setUser(userData).
FetchUserOk(t, userData) ==
    /\ t.op = "fetchUser"
    /\ user' = userData
    /\ Start(<< >>, {t})
    /\ Resumed("fetchUser", t, TRUE, << userData >>)
    /\ alerted' = <<>>
    /\ UNCHANGED << variant, listed, chat, token, stored, browse, loading, authForms, forms, ghost >>

\* A slip: the token is cleared in memory but stays in local storage.
UserFetchFailedKeepsStorage ==
    /\ token' = Null
    /\ UNCHANGED stored

\* fetchUser's catch: localStorage.removeItem('token'); setToken(null).
UserFetchFailed ==
    /\ stored' = Null
    /\ token' = Null

\* fetchUser's catch, then the token effect, when the token was not null
\* already.
FetchUserFail(t) ==
    /\ t.op = "fetchUser"
    /\ UserFetchFailed
    /\ Start(EffectIfChanged(nid, token, Null, t.cause), {t})
    /\ Resumed("fetchUser", t, FALSE, <<>>)
    /\ alerted' = <<>>
    /\ UNCHANGED << variant, listed, chat, user, browse, loading, authForms, forms, ghost >>

\* fetchQuestions after its await: setQuestions(questionsData).
FetchQuestionsOk(t, questionsData) ==
    /\ t.op = "fetchQuestions"
    /\ questions' = questionsData
    /\ Listed(t)
    /\ Start(<< >>, {t})
    /\ Resumed("fetchQuestions", t, TRUE, questionsData)
    /\ alerted' = <<>>
    /\ UNCHANGED << variant, chat, session, currentQuestion, answers, loading, authForms,
                    forms, ghost >>

\* A slip: a failed list request logs out, as a failed profile request does.
FetchQuestionsFailLogsOut(t) ==
    /\ t.op = "fetchQuestions"
    /\ UserFetchFailed
    /\ Start(EffectIfChanged(nid, token, Null, t.cause), {t})
    /\ Resumed("fetchQuestions", t, FALSE, <<>>)
    /\ alerted' = <<>>
    /\ UNCHANGED << variant, listed, chat, user, browse, loading, authForms, forms, ghost >>

\* fetchQuestions' catch: console.error only.
FetchQuestionsFail(t) ==
    /\ t.op = "fetchQuestions"
    /\ Start(<< >>, {t})
    /\ Resumed("fetchQuestions", t, FALSE, <<>>)
    /\ alerted' = <<>>
    /\ UNCHANGED << variant, listed, chat, session, browse, loading, authForms, forms, ghost >>

\* A slip: the detail is shown as soon as it is there, the answers left as
\* they were.
FetchQuestionOkDetailOnly(t, questionBody, answersData) ==
    /\ t.op = "fetchQuestion"
    /\ currentQuestion' = questionBody
    /\ UNCHANGED answers
    /\ Start(<< >>, {t})
    /\ Resumed("fetchQuestion", t, TRUE, << questionBody, answersData >>)
    /\ alerted' = <<>>
    /\ UNCHANGED << variant, listed, chat, session, questions, loading, authForms, forms, ghost >>

\* fetchQuestion once Promise.all has resolved: both bodies are set together.
FetchQuestionOk(t, questionBody, answersData) ==
    /\ t.op = "fetchQuestion"
    /\ currentQuestion' = questionBody
    /\ answers' = answersData
    /\ Start(<< >>, {t})
    /\ Resumed("fetchQuestion", t, TRUE, << questionBody, answersData >>)
    /\ alerted' = <<>>
    /\ UNCHANGED << variant, listed, chat, session, questions, loading, authForms, forms, ghost >>

\* Promise.all rejected (either request failed): only the console sees it.
FetchQuestionFail(t) ==
    /\ t.op = "fetchQuestion"
    /\ Start(<< >>, {t})
    /\ Resumed("fetchQuestion", t, FALSE, <<>>)
    /\ alerted' = <<>>
    /\ UNCHANGED << variant, listed, chat, session, browse, loading, authForms, forms, ghost >>

\* A slip: the token is kept in memory but never written to local storage.
StoreTokenInMemoryOnly(access_token) ==
    /\ token' = access_token
    /\ UNCHANGED stored

\* setToken(response.access_token); localStorage.setItem('token', ...).
StoreToken(access_token) ==
    /\ token' = access_token
    /\ stored' = access_token

\* handleAuth after its await, on success, and the token effect of the render
\* that follows.
HandleAuthOk(t, access_token) ==
    /\ t.op = "handleAuth"
    /\ StoreToken(access_token)
    /\ loginData' = InitLoginData
    /\ registerData' = InitRegisterData
    /\ loading' = FALSE
    /\ Start(EffectIfChanged(nid, token, token', t.cause), {t})
    /\ Resumed("handleAuth", t, TRUE, << access_token >>)
    /\ MarkLogin
    /\ alerted' = <<>>
    /\ UNCHANGED << variant, listed, chat, user, browse, authMode, forms, nevents, budget >>

\* A slip: the error payload is taken for a login response, so that
\* response.access_token (undefined) is set and stored.
AuthFailedStoresUndefined ==
    /\ token' = "undefined"
    /\ stored' = "undefined"

\* handleAuth's catch block leaves the token alone.
AuthFailed == UNCHANGED << token, stored >>

\* A slip: setLoading(false) only at the end of the try block.
HandleAuthFailKeepsLoading(t, shape) ==
    /\ t.op = "handleAuth"
    /\ AuthFailed
    /\ alerted' = << ErrorMessage(shape) >>
    /\ UNCHANGED loading
    /\ Start(<< >>, {t})
    /\ Resumed("handleAuth", t, FALSE, << shape >>)
    /\ UNCHANGED << variant, listed, chat, user, browse, authForms, forms, ghost >>

\* handleAuth's catch: alert(error.message); then setLoading(false).
HandleAuthFail(t, shape) ==
    /\ t.op = "handleAuth"
    /\ AuthFailed
    /\ alerted' = << ErrorMessage(shape) >>
    /\ loading' = FALSE
    /\ Start(<< >>, {t})
    /\ Resumed("handleAuth", t, FALSE, << shape >>)
    /\ UNCHANGED << variant, listed, chat, user, browse, authForms, forms, ghost >>

\* A slip: the list is not fetched again after a question is created.
QuestionCreatedNoRefetch(t) == << >>

\* handleCreateQuestion after its await: fetchQuestions() of the handler's
\* own render.
QuestionCreated(t) == << FetchQuestionsCall(nid, t.tok, t.cause, token) >>

HandleCreateQuestionOk(t) ==
    /\ t.op = "handleCreateQuestion"
    /\ questionData' = InitQuestionData
    /\ loading' = FALSE
    /\ Start(QuestionCreated(t), {t})
    /\ Resumed("handleCreateQuestion", t, TRUE, <<>>)
    /\ alerted' = <<>>
    /\ UNCHANGED << variant, listed, chat, session, browse, authForms, answerContent, searchQuery,
                    ghost >>

\* A slip: the form is reset after a failure too.
HandleCreateQuestionFailResets(t, shape) ==
    /\ t.op = "handleCreateQuestion"
    /\ alerted' = << ErrorMessage(shape) >>
    /\ loading' = FALSE
    /\ questionData' = InitQuestionData
    /\ Start(<< >>, {t})
    /\ Resumed("handleCreateQuestion", t, FALSE, << shape >>)
    /\ UNCHANGED << variant, listed, chat, session, browse, authForms, answerContent,
                    searchQuery, ghost >>

\* handleCreateQuestion's catch: alert(error.message); then setLoading(false).
HandleCreateQuestionFail(t, shape) ==
    /\ t.op = "handleCreateQuestion"
    /\ alerted' = << ErrorMessage(shape) >>
    /\ loading' = FALSE
    /\ Start(<< >>, {t})
    /\ Resumed("handleCreateQuestion", t, FALSE, << shape >>)
    /\ UNCHANGED << variant, listed, chat, session, browse, authForms, forms, ghost >>

\* What handleCreateAnswer does once the answer is posted (and, themed, the
\* fact check has settled): setAnswerContent(''); fetchQuestion(currentQuestion.id)
\* of the handler's own render; setLoading(false).
AnswerPosted(t) ==
    /\ answerContent' = <<>>
    /\ loading' = FALSE
    /\ Start(<< FetchQuestionCall(nid, t.tok, t.cq.id, t.cause, token) >>, {t})

\* handleCreateAnswer after its first await, on success.  The themed variant
\* goes on to await POST /api/fact-check-answer.
HandleCreateAnswerOk(t, answerId) ==
    /\ t.op = "handleCreateAnswer"
    /\ t.pc = "create"
    /\ IF variant = "themed"
       THEN /\ tasks' = (tasks \ {t}) \cup {[t EXCEPT !.pc = "factcheck", !.q = answerId]}
            /\ sent' = << ApiRequest(t.tok, "factCheck", answerId, 0,
                                     << Str(t.text) >>, t.cause, token) >>
            /\ UNCHANGED << nid, answerContent, loading >>
       ELSE AnswerPosted(t)
    /\ Resumed("handleCreateAnswer", t, TRUE, << answerId >>)
    /\ alerted' = <<>>
    /\ UNCHANGED << variant, listed, chat, session, browse, authForms, questionData, searchQuery,
                    ghost >>

HandleCreateAnswerFail(t, shape) ==
    /\ t.op = "handleCreateAnswer"
    /\ t.pc = "create"
    /\ alerted' = << ErrorMessage(shape) >>
    /\ loading' = FALSE
    /\ Start(<< >>, {t})
    /\ Resumed("handleCreateAnswer", t, FALSE, << shape >>)
    /\ UNCHANGED << variant, listed, chat, session, browse, authForms, forms, ghost >>

\* A slip: no inner try, so that a failed fact check reaches the outer catch.
FactCheckUncaught(t, ok) ==
    IF ok
    THEN AnswerPosted(t) /\ alerted' = <<>>
    ELSE /\ alerted' = << "Request failed" >>
         /\ loading' = FALSE
         /\ Start(<< >>, {t})
         /\ UNCHANGED answerContent

\* The inner try/catch around the fact check: a failure is logged to the
\* console and the handler goes on as after a success.
FactCheckCaught(t, ok) == AnswerPosted(t) /\ alerted' = <<>>

\* The fact-check request settles.
FactCheckSettled(t, ok) ==
    /\ t.op = "handleCreateAnswer"
    /\ t.pc = "factcheck"
    /\ FactCheckCaught(t, ok)
    /\ Resumed("factCheck", t, ok, <<>>)
    /\ UNCHANGED << variant, listed, chat, session, browse, authForms, questionData, searchQuery,
                    ghost >>

\* A slip: the list is fetched again only after an upvote.
VoteRefetchListOnUpvote(t) ==
    IF t.val = 1
    THEN << FetchQuestionCall(nid, t.tok, t.cq.id, t.cause, token),
            FetchQuestionsCall(nid + 1, t.tok, t.cause, token) >>
    ELSE << FetchQuestionCall(nid, t.tok, t.cq.id, t.cause, token) >>

\* handleVote after its await: if (currentQuestion) fetchQuestion(currentQuestion.id);
\* fetchQuestions() -- all of the handler's own render.
VoteRefetch(t) ==
    IF t.cq # NullQuestion
    THEN << FetchQuestionCall(nid, t.tok, t.cq.id, t.cause, token),
            FetchQuestionsCall(nid + 1, t.tok, t.cause, token) >>
    ELSE << FetchQuestionsCall(nid, t.tok, t.cause, token) >>

\* A slip: the vote count on screen is bumped before the re-fetch answers.
VoteStateOptimistic(t) ==
    /\ currentQuestion' = [currentQuestion EXCEPT !.votes = @ + t.val]
    /\ UNCHANGED << questions, answers >>

\* What handleVote does to the entities on screen: nothing.
VoteState(t) == UNCHANGED browse

HandleVoteOk(t) ==
    /\ t.op = "handleVote"
    /\ Start(VoteRefetch(t), {t})
    /\ VoteState(t)
    /\ Resumed("handleVote", t, TRUE, <<>>)
    /\ alerted' = <<>>
    /\ UNCHANGED << variant, listed, chat, session, loading, authForms, forms, ghost >>

\* A slip: the list is fetched again after a failed vote too.
VoteFailedRefetches(t) == << FetchQuestionsCall(nid, t.tok, t.cause, token) >>

\* handleVote's catch: console.error only.
VoteFailed(t) == << >>

HandleVoteFail(t) ==
    /\ t.op = "handleVote"
    /\ Start(VoteFailed(t), {t})
    /\ Resumed("handleVote", t, FALSE, <<>>)
    /\ alerted' = <<>>
    /\ UNCHANGED << variant, listed, chat, session, browse, loading, authForms, forms, ghost >>

\* handleSearch after its await: setQuestions(results).
HandleSearchOk(t, results) ==
    /\ t.op = "handleSearch"
    /\ questions' = results
    /\ Listed(t)
    /\ Start(<< >>, {t})
    /\ Resumed("handleSearch", t, TRUE, results)
    /\ Mark("searched")
    /\ alerted' = <<>>
    /\ UNCHANGED << variant, chat, session, currentQuestion, answers, loading, authForms,
                    forms, nevents, budget >>

HandleSearchFail(t) ==
    /\ t.op = "handleSearch"
    /\ Start(<< >>, {t})
    /\ Resumed("handleSearch", t, FALSE, <<>>)
    /\ alerted' = <<>>
    /\ UNCHANGED << variant, listed, chat, session, browse, loading, authForms, forms, ghost >>

\* handleChatMessage after its await: the reply is appended to the transcript
\* as it is then.
HandleChatMessageOk(t, response) ==
    /\ t.op = "handleChatMessage"
    /\ chatMessages' = Append(chatMessages, AiMessage(response))
    /\ Start(<< >>, {t})
    /\ Resumed("handleChatMessage", t, TRUE, << response >>)
    /\ alerted' = <<>>
    /\ UNCHANGED << variant, listed, session, browse, loading, authForms, forms, isChatOpen,
                    chatInput, ghost >>

\* handleChatMessage's catch: the fixed message is appended.
HandleChatMessageFail(t) ==
    /\ t.op = "handleChatMessage"
    /\ chatMessages' = Append(chatMessages, ErrorMessageOfChat)
    /\ Start(<< >>, {t})
    /\ Resumed("handleChatMessage", t, FALSE, <<>>)
    /\ alerted' = <<>>
    /\ UNCHANGED << variant, listed, session, browse, loading, authForms, forms, isChatOpen,
                    chatInput, ghost >>

\* ----------------------------------------------------------- specifications
QIds == {1, 2}
NewAnswerIds == {3}

UserEvent ==
    \/ \E m \in {"login", "register"} : SetAuthMode(m)
    \/ \E d \in {InitLoginData, FilledLoginData} : SetLoginData(d)
    \/ \E d \in {InitRegisterData, FilledRegisterData} : SetRegisterData(d)
    \/ \E q \in Queries : SetSearchQuery(q)
    \/ \E s \in TagInputs : SetQuestionTags(s)
    \/ \E c \in IMMIGRATION_CATEGORIES : SetQuestionCategory(c)
    \/ \E s \in AnswerInputs : SetAnswerContent(s)
    \/ HandleAuth
    \/ Logout
    \/ \E q \in QIds : OpenQuestion(q)
    \/ BackToQuestions
    \/ \E id \in QIds, type \in {"question", "answer"}, value \in {1, -1} :
            HandleVote(id, type, value)
    \/ HandleCreateQuestion
    \/ HandleCreateAnswer
    \/ HandleSearch
    \/ \E b \in BOOLEAN : SetIsChatOpen(b)
    \/ \E s \in ChatInputs : SetChatInput(s)
    \/ HandleChatMessage

\* The responses: any suspended call may be resumed, with any outcome.
FetchResponse ==
    \/ \E t \in tasks, u \in Users : FetchUserOk(t, u)
    \/ \E t \in tasks : FetchUserFail(t)
    \/ \E t \in tasks, l \in ListVals : FetchQuestionsOk(t, l)
    \/ \E t \in tasks : FetchQuestionsFail(t)

AuthResponse ==
    \/ \E t \in tasks, tk \in Tokens : HandleAuthOk(t, tk)
    \/ \E t \in tasks, shape \in FailShapes : HandleAuthFail(t, shape)

QuestionResponse ==
    \/ \E t \in tasks : \E qd \in QuestionVals(t.q), ad \in AnswerVals :
            FetchQuestionOk(t, qd, ad)
    \/ \E t \in tasks : FetchQuestionFail(t)

VoteResponse ==
    \/ \E t \in tasks : HandleVoteOk(t)
    \/ \E t \in tasks : HandleVoteFail(t)

SearchResponse ==
    \/ \E t \in tasks, l \in ListVals : HandleSearchOk(t, l)
    \/ \E t \in tasks : HandleSearchFail(t)

QuestionFormResponse ==
    \/ \E t \in tasks : HandleCreateQuestionOk(t)
    \/ \E t \in tasks, shape \in FailShapes : HandleCreateQuestionFail(t, shape)

AnswerFormResponse ==
    \/ \E t \in tasks, a \in NewAnswerIds : HandleCreateAnswerOk(t, a)
    \/ \E t \in tasks, shape \in FailShapes : HandleCreateAnswerFail(t, shape)
    \/ \E t \in tasks, ok \in BOOLEAN : FactCheckSettled(t, ok)

ChatResponse ==
    \/ \E t \in tasks, r \in ChatReplies : HandleChatMessageOk(t, r)
    \/ \E t \in tasks : HandleChatMessageFail(t)

Response ==
    \/ FetchResponse
    \/ AuthResponse
    \/ QuestionResponse
    \/ VoteResponse
    \/ SearchResponse
    \/ QuestionFormResponse
    \/ AnswerFormResponse
    \/ ChatResponse

\* Spec: every action of the component.
Next == UserEvent \/ Response

Init == Mounted({Null, "tA"}, MaxEvents, {InitQuestionData})

Spec == Init /\ [][Next]_vars

\* SpecSession: logging in, registering and logging out.
SessionEvent ==
    \/ \E m \in {"login", "register"} : SetAuthMode(m)
    \/ HandleAuth
    \/ Logout

InitSession == Mounted({Null, "tA"}, MaxSessionEvents, {InitQuestionData})

SpecSession == InitSession /\ [][SessionEvent \/ FetchResponse \/ AuthResponse]_vars

\* SpecBrowse: a visit that starts with a stored token: opening questions,
\* voting, returning to the list, logging out.
BrowseEvent ==
    \/ Logout
    \/ \E q \in QIds : OpenQuestion(q)
    \/ BackToQuestions
    \/ \E id \in QIds, type \in {"question", "answer"}, value \in {1, -1} :
            HandleVote(id, type, value)

InitBrowse == Mounted({"tA"}, MaxBrowseEvents, {InitQuestionData})

SpecBrowse == InitBrowse /\ [][BrowseEvent \/ FetchResponse \/ QuestionResponse \/ VoteResponse]_vars

\* SpecSearch: a visit that starts with a stored token: searching.
SearchEvent ==
    \/ \E q \in Queries : SetSearchQuery(q)
    \/ HandleSearch

InitSearch == Mounted({"tA"}, MaxSearchEvents, {InitQuestionData})

SpecSearch == InitSearch /\ [][SearchEvent \/ FetchResponse \/ SearchResponse]_vars

\* SpecForms: a visit that starts with a stored token: asking a question,
\* opening one and answering it.
FormEvent ==
    \/ \E s \in TagInputs : SetQuestionTags(s)
    \/ \E c \in IMMIGRATION_CATEGORIES : SetQuestionCategory(c)
    \/ \E s \in AnswerInputs : SetAnswerContent(s)
    \/ \E q \in QIds : OpenQuestion(q)
    \/ HandleCreateQuestion
    \/ HandleCreateAnswer

InitForms == Mounted({"tA"}, MaxFormEvents, {InitQuestionData})

SpecForms ==
    InitForms /\ [][FormEvent \/ FetchResponse \/ QuestionResponse
                      \/ QuestionFormResponse \/ AnswerFormResponse]_vars

\* SpecTags: the Ask Question dialog submitted with every tags input of up to
\* MaxLen characters, and any category (themed) or none (generic).
TypedQuestionData ==
    { [InitQuestionData EXCEPT !.tags = s, !.category = c] :
        s \in TextsUpTo(MaxLen), c \in IMMIGRATION_CATEGORIES \cup {""} }

InitTags == Mounted({"tA"}, MaxTagEvents, TypedQuestionData)

SpecTags == InitTags /\ [][HandleCreateQuestion \/ FetchResponse \/ QuestionFormResponse]_vars

\* SpecChat: a visit that starts with a stored token: the assistant dialog.
ChatEvent ==
    \/ \E b \in BOOLEAN : SetIsChatOpen(b)
    \/ \E s \in ChatInputs : SetChatInput(s)
    \/ HandleChatMessage

InitChat == Mounted({"tA"}, MaxChatEvents, {InitQuestionData})

SpecChat == InitChat /\ [][ChatEvent \/ FetchResponse \/ ChatResponse]_vars

\* SpecRelogin: a visit that starts with a stored token: a chat, a logout and
\* a login in the same page.
ReloginEvent ==
    \/ SetIsChatOpen(TRUE)
    \/ \E s \in ChatInputs : SetChatInput(s)
    \/ HandleChatMessage
    \/ Logout
    \/ HandleAuth

InitRelogin == Mounted({"tA"}, MaxReloginEvents, {InitQuestionData})

SpecRelogin ==
    InitRelogin /\ [][ReloginEvent \/ FetchResponse \/ AuthResponse \/ ChatResponse]_vars

\* ------------------------------------------------------------------- claims
\* The suspended call that the last step resumed, if it resumed one.
ResumedOp(op) == last.op = op /\ last.task # NoTask

\* C1: when the login or register request that handleAuth sent from the
\* anonymous state succeeds with access token t, the token in memory and the
\* 'token' entry of local storage are both t, and the main view is rendered
\* instead of the auth screen.
C1_AuthSuccessStoresToken ==
    (ResumedOp("handleAuth") /\ last.ok /\ last.task.tok = Null)
        => /\ token = last.body[1]
           /\ stored = last.body[1]
           /\ View = "main"

C1_Witness ==
    /\ ResumedOp("handleAuth") /\ last.ok /\ last.task.tok = Null
    /\ last.body = << "tB" >>
    /\ stored = "tB"

\* C2: when the login or register request of handleAuth fails, the token is
\* null in memory, local storage has no 'token' entry, and the auth screen
\* stays.
C2_AuthFailureKeepsAnonymous ==
    (ResumedOp("handleAuth") /\ ~last.ok)
        => /\ token = Null
           /\ stored = Null
           /\ View = "auth"

C2_Witness ==
    /\ ResumedOp("handleAuth") /\ ~last.ok
    /\ alerted = << "Bad credentials" >>
    /\ View = "auth"

\* C3: right after logout the token is null, local storage has no 'token'
\* entry, user and currentQuestion are null, answers is empty and the auth
\* screen is rendered.
C3_LogoutClears ==
    last.op = "logout"
        => /\ token = Null
           /\ stored = Null
           /\ user = NullUser
           /\ currentQuestion = NullQuestion
           /\ answers = <<>>
           /\ View = "auth"

\* A logout from the detail view of a question that had answers.
C3_Witness ==
    /\ last.op = "logout"
    /\ last.q # 0
    /\ last.val > 0
    /\ answers = <<>>

\* C4 (as claimed): from a logout to the next successful login, user is null,
\* currentQuestion is null and answers is empty, also when a response to a
\* request sent before the logout arrives after it.
C4_DiscardedStaysDiscarded ==
    "loggedOut" \in marks
        => /\ user = NullUser
           /\ currentQuestion = NullQuestion
           /\ answers = <<>>

\* A vote on a question: the handler has ended, either resumed by the response
\* to its request or in the click itself, having sent no request.
QuestionVoteResumed == ResumedOp("handleVote") /\ last.task.text = << "question" >>
QuestionVoteDropped ==
    /\ last.op = "handleVote"
    /\ last.task = NoTask
    /\ last.type = "question"
    /\ Sent("vote") = <<>>

\* C5 (as claimed): every vote action on a question, up or down, triggers
\* exactly one re-fetch of the current question (detail and answers) and
\* exactly one re-fetch of the question list.
C5_EveryVoteRefetchesOnce ==
    (QuestionVoteResumed \/ QuestionVoteDropped)
        => /\ Len(Sent("question")) = 1
           /\ Len(Sent("answers")) = 1
           /\ Len(Sent("list")) = 1

\* C5 (amended): a vote on a question whose request succeeds triggers exactly
\* one re-fetch of the question that was open when the vote was cast (its
\* detail and its answers) and exactly one re-fetch of the list, whatever the
\* direction; a vote whose request fails, or that sends no request, triggers
\* no re-fetch.
C5_SuccessfulVoteRefetchesOnce ==
    /\ QuestionVoteResumed =>
          IF last.ok
          THEN /\ Len(sent) = 3
               /\ Len(Sent("question")) = 1
               /\ Len(Sent("answers")) = 1
               /\ Len(Sent("list")) = 1
               /\ Sent("question")[1].q = last.task.cq.id
               /\ Sent("answers")[1].q = last.task.cq.id
          ELSE sent = <<>>
    /\ last.op = "handleVote" /\ last.task = NoTask =>
          /\ Sent("question") = <<>>
          /\ Sent("answers") = <<>>
          /\ Sent("list") = <<>>

\* A downvote on the open question has succeeded.
C5_Witness ==
    /\ QuestionVoteResumed
    /\ last.ok
    /\ last.val = -1
    /\ Len(sent) = 3

\* The tags the claim describes, read off the input without splitting it:
\* the pieces lie between the bounds (before the text, at each comma, after
\* the text); a piece with a non-space character gives the tag that runs
\* from its first to its last non-space character.
TagBounds(s) == {0, Len(s) + 1} \cup { i \in 1..Len(s) : s[i] = "," }
NextBound(s, lo) ==
    CHOOSE hi \in TagBounds(s) :
        hi > lo /\ \A b \in TagBounds(s) : b > lo => hi <= b
Inked(s, lo) == { i \in (lo + 1)..(NextBound(s, lo) - 1) : s[i] # " " }
Least(S) == CHOOSE x \in S : \A y \in S : x <= y
Greatest(S) == CHOOSE x \in S : \A y \in S : y <= x
ExpectedTags(s) ==
    LET starts == { lo \in TagBounds(s) \ {Len(s) + 1} : Inked(s, lo) # {} }
        nth(i) == CHOOSE lo \in starts : Cardinality({ x \in starts : x < lo }) = i - 1
    IN  [ i \in 1..Cardinality(starts) |->
            Str(SubSeq(s, Least(Inked(s, nth(i))), Greatest(Inked(s, nth(i))))) ]

\* C6: the tags create-question sends are the tags input split at commas,
\* each piece trimmed, empty pieces dropped, order and duplicates kept; the
\* themed variant appends the category, the generic variant nothing.  For
\* "a, b" and "employment": ["a","b","employment"] and ["a","b"].
C6_TagsSent ==
    \A i \in 1..Len(Sent("createQuestion")) :
        LET body == Sent("createQuestion")[i].body
        IN  /\ variant = "themed" =>
                 body = Append(ExpectedTags(questionData.tags), questionData.category)
            /\ variant = "generic" => body = ExpectedTags(questionData.tags)
            /\ questionData.tags = << "a", ",", " ", "b" >> =>
                 body = IF variant = "themed"
                        THEN << "a", "b", questionData.category >>
                        ELSE << "a", "b" >>

C6_Witness ==
    /\ variant = "themed"
    /\ questionData.tags = << "a", ",", " ", "b" >>
    /\ Len(Sent("createQuestion")) = 1
    /\ Sent("createQuestion")[1].body = << "a", "b", "employment" >>

\* A query that is empty or holds only whitespace.
Blank(q) == \A i \in 1..Len(q) : q[i] = " "

\* C7: handleSearch with a blank query sends the list request and no search
\* request, and when that request succeeds questions is the list the server
\* returned; with another query it sends a search request, and questions
\* becomes the search results, whole.
C7_BlankSearchRestoresList ==
    /\ last.op = "handleSearch" /\ last.task = NoTask =>
          /\ Len(sent) = 1
          /\ sent[1].kind = IF Blank(searchQuery) THEN "list" ELSE "search"
    /\ ResumedOp("fetchQuestions") /\ last.ok => questions = last.body
    /\ ResumedOp("handleSearch") /\ last.ok => questions = last.body

\* After a search for "a" has completed, a search with a query of one space
\* has restored the list.
C7_Witness ==
    /\ "searched" \in marks
    /\ searchQuery = << " " >>
    /\ ResumedOp("fetchQuestions") /\ last.ok /\ last.cause > 0
    /\ questions = << Q1b, Q2a >>

\* C8: questions, currentQuestion and answers change only to the body of a
\* successful response, taken whole, or to their cleared value (logout, the
\* return to the list): no step changes a field of an entity locally.
C8_EntitiesMirrorResponses ==
    [][ /\ questions' # questions =>
              /\ last'.op \in {"fetchQuestions", "handleSearch"}
              /\ last'.task # NoTask /\ last'.ok
              /\ questions' = last'.body
        /\ currentQuestion' # currentQuestion =>
              \/ /\ last'.op = "fetchQuestion" /\ last'.task # NoTask /\ last'.ok
                 /\ currentQuestion' = last'.body[1]
              \/ /\ last'.op \in {"logout", "back"}
                 /\ currentQuestion' = NullQuestion
        /\ answers' # answers =>
              \/ /\ last'.op = "fetchQuestion" /\ last'.task # NoTask /\ last'.ok
                 /\ answers' = last'.body[2]
              \/ /\ last'.op = "logout"
                 /\ answers' = <<>> ]_vars

\* A vote has succeeded and the question on screen is still the one the
\* server sent before the vote.
C8_Witness ==
    /\ ResumedOp("handleVote") /\ last.ok
    /\ currentQuestion # NullQuestion
    /\ currentQuestion = last.task.cq

\* C9: a successful create-question request is followed by exactly one list
\* request, a successful create-answer request by exactly one fetch of the
\* open question and of its answers (in the themed variant once the fact
\* check has settled); a failed create request by no request at all.
C9_CreateRefetches ==
    /\ ResumedOp("handleCreateQuestion") =>
          IF last.ok THEN Len(sent) = 1 /\ sent[1].kind = "list" ELSE sent = <<>>
    /\ ResumedOp("handleCreateAnswer") /\ ~last.ok => sent = <<>>
    /\ ResumedOp("handleCreateAnswer") /\ last.ok /\ variant = "themed" =>
          Len(sent) = 1 /\ sent[1].kind = "factCheck"
    /\ \/ ResumedOp("handleCreateAnswer") /\ last.ok /\ variant = "generic"
       \/ ResumedOp("factCheck")
       => /\ Len(sent) = 2
          /\ Len(Sent("question")) = 1
          /\ Len(Sent("answers")) = 1
          /\ Sent("question")[1].q = last.task.cq.id
          /\ Sent("answers")[1].q = last.task.cq.id

C9_Witness ==
    /\ ResumedOp("handleCreateQuestion") /\ last.ok
    /\ Len(Sent("list")) = 1

\* C10 (as claimed): a request sent while the token is non-null carries
\* Authorization: Bearer <that token>, and a request sent while the token is
\* null carries no Authorization header.
C10_HeaderMatchesSession ==
    \A i \in 1..Len(sent) :
        sent[i].auth = IF sent[i].tokNow # Null THEN "Bearer " \o sent[i].tokNow ELSE Null

\* The message the claim gives for a non-OK response, as a value of the kind
\* a detail field has.
ClaimedMessage(shape) ==
    IF ~shape.parses THEN StringDetail("Network error")
    ELSE IF shape.detail # NoDetail /\ shape.detail # StringDetail("") THEN shape.detail
    ELSE StringDetail("Request failed")

\* C11 (as claimed): apiRequest returns the body of an OK response; for a
\* non-OK response it returns nothing and throws an error whose message is
\* the payload's detail when the body parses and has a non-empty detail,
\* 'Request failed' when it parses without one, 'Network error' when it does
\* not parse.  Seen where the message shows: in the alert of handleAuth.
C11_ApiRequestOutcome ==
    ResumedOp("handleAuth") =>
        IF last.ok
        THEN alerted = <<>> /\ token = last.body[1]
        ELSE /\ Len(alerted) = 1
             /\ StringDetail(alerted[1]) = ClaimedMessage(last.body[1])

\* C12: an accepted chat submission (input not blank, token set) appends the
\* user's message with the input text and sends one chat request whose body
\* is that text; when the request settles, exactly one assistant message is
\* appended, the reply on success and the fixed text on failure.  A blank
\* input (or a null token) appends nothing and sends nothing.
C12_ChatSubmission ==
    [][ /\ (last'.op = "handleChatMessage" /\ last'.task = NoTask) =>
              IF Blank(chatInput) \/ token = Null
              THEN chatMessages' = chatMessages /\ sent' = <<>>
              ELSE /\ chatMessages' =
                        Append(chatMessages, [text |-> Str(chatInput), sender |-> "user"])
                   /\ Len(sent') = 1
                   /\ sent'[1].kind = "chat"
                   /\ sent'[1].body = << Str(chatInput) >>
        /\ (last'.op = "handleChatMessage" /\ last'.task # NoTask) =>
              chatMessages' =
                  Append(chatMessages,
                         [ text |-> IF last'.ok THEN last'.body[1]
                                    ELSE "Sorry, I encountered an error. Please try again.",
                           sender |-> "ai" ]) ]_vars

\* A chat whose request failed, then a submission of a blank input.
C12_Witness ==
    /\ last.op = "handleChatMessage" /\ last.task = NoTask
    /\ chatInput = << " " >>
    /\ chatMessages =
          << [text |-> "a", sender |-> "user"],
             [text |-> "Sorry, I encountered an error. Please try again.", sender |-> "ai"] >>

\* C13 (as claimed): after a logout followed by a successful login in the
\* same page, the chat transcript is empty.
C13_TranscriptEmptyAfterRelogin ==
    (ResumedOp("handleAuth") /\ last.ok /\ "relogged" \in marks) => chatMessages = <<>>

\* C14: when the token becomes non-null (a token found in local storage at
\* start, a successful login or registration), exactly one profile request
\* and one list request are sent, both carrying it; a profile request is sent
\* at no other step and never while the token is null; and when a profile
\* request succeeds, user is the profile returned.
C14_ProfileFetchedOncePerToken ==
    /\ \/ last.op = "mount" /\ token # Null
       \/ ResumedOp("handleAuth") /\ last.ok
       => /\ Len(sent) = 2
          /\ Len(Sent("me")) = 1
          /\ Len(Sent("list")) = 1
          /\ \A i \in 1..2 : sent[i].auth = "Bearer " \o token
    /\ Sent("me") # <<>> =>
          /\ token # Null
          /\ last.op = "mount" \/ (ResumedOp("handleAuth") /\ last.ok)
    /\ ResumedOp("fetchUser") /\ last.ok => user = last.body[1]

\* The profile asked for after a login has arrived.
C14_Witness ==
    /\ ResumedOp("fetchUser") /\ last.ok
    /\ last.cause > 0
    /\ last.task.tok = "tB"
    /\ user = [id |-> 1]

\* C15: when the profile request fails, the token is removed from local
\* storage and null in memory, the auth screen is rendered, and no alert is
\* shown.
C15_ProfileFailureLogsOut ==
    (ResumedOp("fetchUser") /\ ~last.ok)
        => /\ stored = Null
           /\ token = Null
           /\ View = "auth"
           /\ alerted = <<>>

C15_Witness ==
    /\ ResumedOp("fetchUser") /\ ~last.ok
    /\ last.task.tok = "tA"
    /\ "loggedOut" \notin marks
    /\ stored = Null

\* C16: a failed vote request changes none of token, user, questions,
\* currentQuestion and answers, shows no alert and sends no request.
C16_VoteFailureIgnored ==
    [][ (last'.op = "handleVote" /\ last'.task # NoTask /\ ~last'.ok)
            => /\ UNCHANGED << token, user, questions, currentQuestion, answers >>
               /\ alerted' = <<>>
               /\ sent' = <<>> ]_vars

C16_Witness ==
    /\ ResumedOp("handleVote") /\ ~last.ok
    /\ currentQuestion = last.task.cq
    /\ currentQuestion # NullQuestion
    /\ sent = <<>>

\* C17: in the themed variant a failed fact check, after the answer was
\* created, shows no alert; the answer input is cleared, the question that
\* was open is fetched again and loading is false.
C17_FactCheckFailureSwallowed ==
    (ResumedOp("factCheck") /\ ~last.ok)
        => /\ variant = "themed"
           /\ alerted = <<>>
           /\ answerContent = <<>>
           /\ loading = FALSE
           /\ Len(sent) = 2
           /\ Len(Sent("question")) = 1
           /\ Len(Sent("answers")) = 1
           /\ Sent("question")[1].q = last.task.cq.id
           /\ Sent("answers")[1].q = last.task.cq.id

C17_Witness ==
    /\ ResumedOp("factCheck") /\ ~last.ok
    /\ last.task.text = << "a" >>
    /\ answerContent = <<>>
    /\ loading = FALSE

\* C18 (as claimed): in the themed variant, once the create-answer request
\* has succeeded, the answer input is cleared, the open question is fetched
\* again and loading is false without the fact check having settled.
C18_FactCheckNotAwaited ==
    (ResumedOp("handleCreateAnswer") /\ last.ok /\ variant = "themed")
        => /\ answerContent = <<>>
           /\ loading = FALSE
           /\ Len(Sent("question")) = 1
           /\ Len(Sent("answers")) = 1

\* The requests in flight that descend from the event numbered c (0: the
\* page load): two for a suspended fetchQuestion, one for any other call.
TasksOf(c) == { t \in tasks : t.cause = c }
InFlight(c) ==
    Cardinality(TasksOf(c)) + Cardinality({ t \in TasksOf(c) : t.op = "fetchQuestion" })
OpsOf(c) == { t.op : t \in TasksOf(c) }

\* C19 (as claimed): more than one request is in flight because of one event
\* only as the detail/answers pair of one fetchQuestion.
C19_OnlyPairInFlight ==
    \A c \in 0..budget :
        InFlight(c) > 1 => Cardinality(TasksOf(c)) = 1 /\ OpsOf(c) = {"fetchQuestion"}

\* C19 (amended): no event has more than three requests in flight; the
\* request of a handler (login, register, vote, create question, create
\* answer, fact check, search, chat) is alone in flight for its event; more
\* than one are in flight only among the fetches: the pair of fetchQuestion,
\* the profile and list requests of the token effect, and, three at once,
\* the fetchQuestion pair and the list request after a successful vote.
C19_InFlightPerEvent ==
    \A c \in 0..budget :
        /\ InFlight(c) <= 3
        /\ InFlight(c) > 1 => OpsOf(c) \subseteq {"fetchQuestion", "fetchUser", "fetchQuestions"}
        /\ InFlight(c) = 3 =>
              /\ OpsOf(c) = {"fetchQuestion", "fetchQuestions"}
              /\ Cardinality(TasksOf(c)) = 2

\* A successful vote has three requests in flight.
C19_Witness ==
    /\ ResumedOp("handleVote") /\ last.ok
    /\ InFlight(last.cause) = 3

\* C20: a failed login, register, create-question or create-answer request
\* shows exactly one alert, with the error's message, and leaves the form's
\* input as it is; a success shows no alert and resets the form's input
\* (create-answer in the themed variant: once the fact check has settled).
C20_AlertOnFormFailure ==
    [][ /\ (last'.op = "handleAuth" /\ last'.task # NoTask) =>
              IF last'.ok
              THEN /\ alerted' = <<>>
                   /\ loginData' = InitLoginData
                   /\ registerData' = InitRegisterData
              ELSE /\ alerted' = << ErrorMessage(last'.body[1]) >>
                   /\ UNCHANGED << loginData, registerData >>
        /\ (last'.op = "handleCreateQuestion" /\ last'.task # NoTask) =>
              IF last'.ok
              THEN alerted' = <<>> /\ questionData' = InitQuestionData
              ELSE /\ alerted' = << ErrorMessage(last'.body[1]) >>
                   /\ UNCHANGED questionData
        /\ (last'.op = "handleCreateAnswer" /\ last'.task # NoTask) =>
              IF last'.ok
              THEN /\ alerted' = <<>>
                   /\ variant = "generic" => answerContent' = <<>>
              ELSE /\ alerted' = << ErrorMessage(last'.body[1]) >>
                   /\ UNCHANGED answerContent
        /\ (last'.op = "factCheck" /\ last'.task # NoTask) =>
              alerted' = <<>> /\ answerContent' = <<>>
        /\ (/\ last'.task # NoTask /\ ~last'.ok
            /\ last'.body = << [parses |-> TRUE, json |-> "object",
                                detail |-> StringDetail("Bad credentials")] >>)
              => alerted' = << "Bad credentials" >> ]_vars

\* A create-question request failed with a category selected in the form.
C20_Witness ==
    /\ ResumedOp("handleCreateQuestion") /\ ~last.ok
    /\ questionData.category = "employment"
    /\ Len(alerted) = 1

\* C21: fetchQuestion sets currentQuestion and answers in one step, to the
\* two bodies of one call, and only when both of its requests succeeded; a
\* failed call changes neither; its two requests name the same question.  No
\* other step sets currentQuestion to a question or answers to a list, so
\* that answers, while a question is shown, is what that question's call
\* fetched.
C21_QuestionAndAnswersTogether ==
    [][ /\ (currentQuestion' # currentQuestion /\ currentQuestion' # NullQuestion) =>
              /\ last'.op = "fetchQuestion" /\ last'.task # NoTask /\ last'.ok
              /\ currentQuestion' = last'.body[1]
              /\ currentQuestion'.id = last'.task.q
              /\ answers' = last'.body[2]
        /\ (answers' # answers /\ currentQuestion' # NullQuestion) =>
              /\ last'.op = "fetchQuestion" /\ last'.task # NoTask /\ last'.ok
              /\ currentQuestion' = last'.body[1]
              /\ answers' = last'.body[2]
        /\ (last'.op = "fetchQuestion" /\ last'.task # NoTask /\ ~last'.ok) =>
              UNCHANGED << currentQuestion, answers >>
        /\ \A i \in 1..Len(sent') :
              sent'[i].kind = "question" =>
                  /\ i < Len(sent')
                  /\ sent'[i + 1].kind = "answers"
                  /\ sent'[i + 1].q = sent'[i].q ]_vars

\* A second fetch of the open question has replaced the detail and the
\* answers together.
C21_Witness ==
    /\ ResumedOp("fetchQuestion") /\ last.ok
    /\ last.body = << Q1b, << [id |-> 1, votes |-> 0] >> >>
    /\ currentQuestion = Q1b
    /\ answers = << [id |-> 1, votes |-> 0] >>
    /\ last.task.cause > 1

\* C22: the token changes from null to a value only when a login or register
\* request succeeds, from a value to null only in logout or when a profile
\* request fails, and never from one value to another.
C22_TokenStateMachine ==
    [][ token' # token =>
            \/ /\ token = Null
               /\ last'.op = "handleAuth" /\ last'.task # NoTask /\ last'.ok
               /\ token' = last'.body[1]
            \/ /\ token # Null
               /\ token' = Null
               /\ \/ last'.op = "logout"
                  \/ last'.op = "fetchUser" /\ last'.task # NoTask /\ ~last'.ok ]_vars

\* Logged out and in again with another token.
C22_Witness ==
    /\ ResumedOp("handleAuth") /\ last.ok
    /\ "relogged" \in marks
    /\ token = "tB"

\* C23: in every state the token in memory equals the 'token' entry of local
\* storage, both null together.
C23_TokenEqualsStored == token = stored

\* A failed profile request has cleared both.
C23_Witness ==
    /\ ResumedOp("fetchUser") /\ ~last.ok
    /\ last.task.tok = "tB"
    /\ token = Null /\ stored = Null

\* C24: a failed profile request that was issued with another token than
\* the one now set leaves the token now set in memory and in local storage.
C24_StaleProfileFailureKeepsToken ==
    [][ ( /\ last'.op = "fetchUser" /\ last'.task # NoTask /\ ~last'.ok
          /\ token # Null
          /\ last'.task.tok # token )
        => UNCHANGED << token, stored >> ]_vars

\* C25: from the moment the user has left a question's page for the list
\* (Back or header) until a question is opened again, currentQuestion is null.
C25_ListStaysAfterReturn ==
    "returned" \in marks => currentQuestion = NullQuestion

\* C26: a late response to an earlier list-producing request (fetchQuestions,
\* handleSearch) never overwrites the result of a later one: when the call
\* that resumes with a successful response was issued before the call whose
\* response questions holds, questions keeps its value.
C26_LatestListWins ==
    [][ ( /\ last'.op \in ListProducing
          /\ last'.task # NoTask /\ last'.ok
          /\ last'.task.id < listed )
        => questions' = questions ]_vars

\* C27: from a logout to the next successful login no request is sent with
\* an Authorization header, so none carries the token the logout cleared,
\* also not the re-fetch of a handler that was started before the logout and
\* resumes after it.
C27_ClearedTokenNotSent ==
    "loggedOut" \in marks
        => \A i \in 1..Len(sent) : sent[i].auth = Null

\* C28: the chat transcript alternates strictly: its odd entries are user
\* messages and its even entries assistant messages, whatever the order of
\* submissions and responses.
C28_TranscriptAlternates ==
    \A i \in 1..Len(chatMessages) :
        chatMessages[i].sender = IF i % 2 = 1 THEN "user" ELSE "ai"

\* The form submissions between their start and their end.
FormOps == { "handleAuth", "handleCreateQuestion", "handleCreateAnswer" }
Submitting == { t \in tasks : t.op \in FormOps }

\* C29: loading is true exactly when one form submission (handleAuth,
\* handleCreateQuestion, handleCreateAnswer) is between its start and its end,
\* and never more than one is.
C29_LoadingIffSubmitting ==
    /\ Cardinality(Submitting) <= 1
    /\ loading <=> Submitting # {}

\* The user has logged out while a question was being created: the login
\* form is shown with loading still true.
C29_Witness ==
    /\ loading
    /\ token = Null
    /\ \E t \in Submitting : t.op = "handleCreateQuestion"

\* C30: a vote cast while the token is set and user is null ends in the
\* click: it sends no request, shows no alert, suspends no call and leaves
\* token, user, questions, currentQuestion and answers as they are.
C30_VoteWithoutProfile ==
    [][ (last'.op = "handleVote" /\ last'.task = NoTask
            /\ token # Null /\ user = NullUser)
        => /\ sent' = <<>>
           /\ alerted' = <<>>
           /\ tasks' = tasks
           /\ UNCHANGED << token, stored, user, questions, currentQuestion, answers >> ]_vars

\* The vote was cast on an open question, the profile still on its way.
C30_Witness ==
    /\ last.op = "handleVote" /\ last.task = NoTask
    /\ token # Null /\ user = NullUser
    /\ currentQuestion # NullQuestion
    /\ \E t \in tasks : t.op = "fetchUser"
    /\ sent = <<>>
====
